---- MODULE Spec2Model ----
(***************************************************************************)
(* Model of the homepage feature-card component of the Eventum             *)
(* documentation site (HomepageFeatures, src/unnamed/part_003), kept in    *)
(* two revisions: the Svg revision (lines 1-68) and the image revision     *)
(* (lines 70-137).                                                         *)
(*                                                                         *)
(* A render of <HomepageFeatures/> is modelled in the steps the code and   *)
(* its host take:                                                          *)
(*   Begin        HomepageFeatures is called; FeatureList.map allocates    *)
(*                its result array and reads the length of FeatureList     *)
(*   MapStep      one call of the map callback: <Feature key=idx ...props>  *)
(*   Return       the section/container/row element is returned            *)
(*   RenderFeature the host calls Feature(props) for the next child        *)
(*   Commit       the host has rendered every child                        *)
(*   Unmount      the view is discarded                                    *)
(* Arrays live on a heap, FeatureList at address FeatureListRef.           *)
(*                                                                         *)
(* Before any page is rendered the site resolves the navbar items of its   *)
(* configuration (src/unnamed/part_002) against the sidebars object        *)
(* (src/docs/sidebars.js, two revisions):                                  *)
(*   ResolveNavbarItem  the next navbar item is resolved                   *)
(*   SiteReady          every item is resolved                             *)
(***************************************************************************)
EXTENDS Integers, Sequences, FiniteSets, TLC

\* ---------------------------------------------------------------- bounds
MaxLen == 2        \* longest list of repeated or malformed records explored
MaxCalls == 2      \* render calls per behaviour
NumRenders == 2    \* render invocations that may be in flight together

Renders == 1..NumRenders

\* ---------------------------------------------------------------- values
\* the value of a property that is missing from a record
Undefined == "undefined"

\* address of the module-level FeatureList array
FeatureListRef == 0

Variants == {"Svg", "image"}

\* const FeatureList = [...] of the Svg revision
FeatureListSvg ==
  << [title |-> "Define time distribution",
      Svg |-> "undraw_docusaurus_mountain.svg",
      description |-> "Eventum offers various methods to define time distribution of events."],
     [title |-> "Design event template",
      Svg |-> "undraw_docusaurus_tree.svg",
      description |-> "With the power of <a>Jinja</a>, it's easy to design event template."],
     [title |-> "Send events anywhere",
      Svg |-> "undraw_docusaurus_react.svg",
      description |-> "You are free to choose where to send generated events."] >>

\* const FeatureList = [...] of the image revision
FeatureListImage ==
  << [title |-> "Define time distribution",
      image |-> "time_distribution.png",
      description |-> "Eventum offers various methods to define time distribution of events."],
     [title |-> "Design event template",
      image |-> "event_template.png",
      description |-> "With the power of <a>Jinja</a>, it's easy to design event template."],
     [title |-> "Send events anywhere",
      image |-> "send_events.png",
      description |-> "You are free to choose where to send generated events."] >>

BuiltinFeatureList(v) == IF v = "Svg" THEN FeatureListSvg ELSE FeatureListImage

Range(s) == {s[i] : i \in 1..Len(s)}

\* a record whose illustration reference is missing
MalformedRecord(v) ==
  IF v = "Svg"
  THEN [FeatureListSvg[1] EXCEPT !.Svg = Undefined]
  ELSE [FeatureListImage[1] EXCEPT !.image = Undefined]

\* the records the lists with repeated and malformed records are made of
Records(v) == {BuiltinFeatureList(v)[1], MalformedRecord(v)}

\* the list in every order of its records
Reorderings(list) ==
  {[i \in 1..Len(list) |-> list[f[i]]] :
     f \in {g \in [1..Len(list) -> 1..Len(list)] : \A i, j \in 1..Len(list) : g[i] = g[j] => i = j}}

\* the feature lists explored: every list of at most MaxLen records drawn
\* from Records, duplicates allowed, and the built-in list in every order
FeatureLists(v) ==
  UNION {[1..n -> Records(v)] : n \in 0..MaxLen} \cup Reorderings(BuiltinFeatureList(v))

\* ---------------------------------------------------------------- state
VARIABLES
  variant,   \* which revision of index.js is loaded
  heap,      \* address -> array; heap[FeatureListRef] is FeatureList
  ncalls,    \* render calls begun so far
  pc,        \* per render: "idle", "map", "host", "done", "error"
  len,       \* per render: length map read from FeatureList
  idx,       \* per render: index of the next map callback
  visits,    \* per render: how often the callback ran on each index
  rowRef,    \* per render: address of the array map returns
  tree,      \* per render: element returned by HomepageFeatures
  ridx,      \* per render: children the host has rendered
  cards,     \* per render: the cards Feature returned to the host
  outcome,   \* per render: what the finished render gave
  history,   \* outcomes of all finished renders
  sidebarsRev, \* which revision of sidebars.js is loaded
  site,      \* "loading", "ready" or "error"
  navIdx,    \* navbar items resolved so far
  navLinks   \* what each resolved navbar item points at

siteVars == <<sidebarsRev, site, navIdx, navLinks>>

vars == <<variant, heap, ncalls, pc, len, idx, visits, rowRef, tree, ridx,
          cards, outcome, history, siteVars>>

FeatureList == heap[FeatureListRef]

\* ---------------------------------------------------------------- elements
\* function Feature({Svg, title, description}) of the Svg revision
FeatureSvg(props) ==
  [type |-> "div", className |-> "col col--4", children |->
    << [type |-> "div", className |-> "text--center", children |->
         << [type |-> props.Svg, className |-> "featureSvg", role |-> "img"] >>],
       [type |-> "div", className |-> "text--center padding-horiz--md", children |->
         << [type |-> "Heading", as |-> "h3", children |-> <<props.title>>],
            [type |-> "p", children |-> <<props.description>>] >>] >>]

\* the image revision with the image used as a component, as Svg is
FeatureImageAsComponent(props) ==
  [type |-> "div", className |-> "col col--4", children |->
    << [type |-> "div", className |-> "text--center", children |->
         << [type |-> props.image, className |-> "featureImage", role |-> "img"] >>],
       [type |-> "div", className |-> "text--center padding-horiz--md", children |->
         << [type |-> "Heading", as |-> "h3", children |-> <<props.title>>],
            [type |-> "p", children |-> <<props.description>>] >>] >>]

\* function Feature({image, title, description}) of the image revision
FeatureImage(props) ==
  [type |-> "div", className |-> "col col--4", children |->
    << [type |-> "div", className |-> "text--center", children |->
         << [type |-> "img", className |-> "featureImage", src |-> props.image] >>],
       [type |-> "div", className |-> "text--center padding-horiz--md", children |->
         << [type |-> "Heading", as |-> "h3", children |-> <<props.title>>],
            [type |-> "p", children |-> <<props.description>>] >>] >>]

\* Feature with the description slot filled from the title
FeatureTitleAsBody(v, props) ==
  IF v = "Svg" THEN FeatureSvg([props EXCEPT !.description = props.title])
               ELSE FeatureImage([props EXCEPT !.description = props.title])

\* Feature with the body placed before the heading
FeatureBodyFirst(v, props) ==
  LET card == IF v = "Svg" THEN FeatureSvg(props) ELSE FeatureImage(props)
  IN [card EXCEPT !.children[2].children = <<@[2], @[1]>>]

\* the Feature component of the loaded revision
Feature(v, props) == IF v = "Svg" THEN FeatureSvg(props) ELSE FeatureImage(props)

\* a callback that gives every element the key 0
MapCallbackKeyZero(props, k) == [type |-> "Feature", key |-> 0, props |-> props]

\* the map callback: (props, idx) => <Feature key={idx} {...props} />
MapCallback(props, k) == [type |-> "Feature", key |-> k, props |-> props]

\* a map that drops a record it has already produced a card for
ArrayMapStepDedup(source, target, k) ==
  IF \E j \in 1..Len(target) : target[j].props = source[k + 1]
  THEN target
  ELSE Append(target, MapCallback(source[k + 1], k))

\* a map that stores each new element in front of the earlier ones
ArrayMapStepReversed(source, target, k) == <<MapCallback(source[k + 1], k)>> \o target

\* a map that hands every card the illustration of the first record
ArrayMapStepFirstIllustration(source, target, k) ==
  Append(target,
         MapCallback(IF "Svg" \in DOMAIN source[k + 1]
                     THEN [source[k + 1] EXCEPT !.Svg = source[1].Svg]
                     ELSE [source[k + 1] EXCEPT !.image = source[1].image], k))

\* one iteration of FeatureList.map: the callback's value for index k is
\* stored at index k of the result array
ArrayMapStep(source, target, k) == Append(target, MapCallback(source[k + 1], k))

\* a map that steps over every other index
NextIndexSkip(k) == k + 2

\* the index map visits after index k
NextIndex(k) == k + 1

\* one module-level result array that every call pushes to
NewArrayRefReused(h) == 1

\* a map that writes its results into FeatureList itself
NewArrayRefInPlace(h) == FeatureListRef

\* the address of the array FeatureList.map creates: one no array has yet
NewArrayRef(h) == Cardinality(DOMAIN h)

\* the element HomepageFeatures returns; the row's children are the array
\* that map returned
HomepageFeaturesElement(ref) ==
  [type |-> "section", className |-> "features", children |->
    << [type |-> "div", className |-> "container", children |->
         << [type |-> "div", className |-> "row", childrenRef |-> ref] >>] >>]

\* a row that shows a placeholder child when there is no card
RenderedTreePlaceholder(rowCards) ==
  [type |-> "section", className |-> "features", children |->
    << [type |-> "div", className |-> "container", children |->
         << [type |-> "div", className |-> "row", children |->
              IF Len(rowCards) = 0 THEN << [type |-> "p", children |-> <<"">>] >>
                                   ELSE rowCards] >>] >>]

\* the tree the host has once every Feature child is rendered
RenderedTree(rowCards) ==
  [type |-> "section", className |-> "features", children |->
    << [type |-> "div", className |-> "container", children |->
         << [type |-> "div", className |-> "row", children |-> rowCards] >>] >>]

\* the row container of a section tree
RowOf(t) == t.children[1].children[1]

\* the content nodes of a card in document order
ContentNodes(card) == card.children[1].children \o card.children[2].children

\* the host renders an element only if its type is a tag or a component;
\* <Svg .../> with Svg undefined is an element of type undefined
HostAccepts(card) == \A i \in 1..Len(ContentNodes(card)) : ContentNodes(card)[i].type # Undefined

NoTree == [type |-> "none"]
NoOutcome == [status |-> "none"]
ElementTypeError == [status |-> "error", message |-> "Element type is invalid"]
Rendered(rowCards) == [status |-> "ok", tree |-> RenderedTree(rowCards)]

\* ---------------------------------------------------------------- site
\* config.themeConfig.navbar.items
NavbarItems ==
  << [type |-> "docSidebar", sidebarId |-> "gettingStartedSidebar",
      position |-> "left", label |-> "Getting started"],
     [type |-> "docSidebar", sidebarId |-> "pluginsSidebar",
      position |-> "left", label |-> "Plugins"],
     [to |-> "/blog", label |-> "Blog", position |-> "right"],
     [position |-> "right", href |-> "https://github.com/rnv812/Eventum",
      className |-> "header-github-link", ariaLabel |-> "GitHub repository"] >>

SidebarsRevisions == {"first", "second"}

\* const sidebars = {...} of the first revision of sidebars.js: each sidebar
\* with its top-level entries
SidebarsFirst ==
  [gettingStartedSidebar |-> <<"category:Overview", "category:Installation">>,
   pluginsSidebar |-> <<"category:Plugins">>]

\* const sidebars = {...} of the second revision of sidebars.js
SidebarsSecond ==
  [gettingStartedSidebar |-> <<"doc:getting_started/overview/index",
                               "doc:getting_started/installation/index">>,
   pluginsSidebar |-> <<"category:Plugins">>]

\* a sidebars.js that still has the first sidebar under the name of the
\* site template
SidebarsTemplateName(rev) ==
  IF rev = "first"
  THEN [tutorialSidebar |-> SidebarsFirst.gettingStartedSidebar,
        pluginsSidebar |-> SidebarsFirst.pluginsSidebar]
  ELSE [tutorialSidebar |-> SidebarsSecond.gettingStartedSidebar,
        pluginsSidebar |-> SidebarsSecond.pluginsSidebar]

\* the sidebars object of a revision
Sidebars(rev) == IF rev = "first" THEN SidebarsFirst ELSE SidebarsSecond

\* item.type === 'docSidebar'; an item without type is a plain link
IsDocSidebarItem(item) == "type" \in DOMAIN item /\ item.type = "docSidebar"

NoSidebar == <<>>

\* ---------------------------------------------------------------- actions
Init ==
  /\ variant \in Variants
  /\ \E list \in FeatureLists(variant) : heap = (FeatureListRef :> list)
  /\ ncalls = 0
  /\ pc = [p \in Renders |-> "idle"]
  /\ len = [p \in Renders |-> 0]
  /\ idx = [p \in Renders |-> 0]
  /\ visits = [p \in Renders |-> <<>>]
  /\ rowRef = [p \in Renders |-> FeatureListRef]
  /\ tree = [p \in Renders |-> NoTree]
  /\ ridx = [p \in Renders |-> 0]
  /\ cards = [p \in Renders |-> <<>>]
  /\ outcome = [p \in Renders |-> NoOutcome]
  /\ history = {}
  /\ sidebarsRev \in SidebarsRevisions
  /\ site = "loading"
  /\ navIdx = 0
  /\ navLinks = <<>>

\* HomepageFeatures() is entered and FeatureList.map starts
Begin(p) ==
  /\ site = "ready"
  /\ pc[p] = "idle"
  /\ ncalls < MaxCalls
  /\ LET ref == NewArrayRef(heap) IN
       /\ heap' = heap @@ (ref :> <<>>)
       /\ rowRef' = [rowRef EXCEPT ![p] = ref]
  /\ ncalls' = ncalls + 1
  /\ len' = [len EXCEPT ![p] = Len(FeatureList)]
  /\ idx' = [idx EXCEPT ![p] = 0]
  /\ visits' = [visits EXCEPT ![p] = [i \in 1..Len(FeatureList) |-> 0]]
  /\ pc' = [pc EXCEPT ![p] = "map"]
  /\ UNCHANGED <<variant, tree, ridx, cards, outcome, history>>
  /\ UNCHANGED siteVars

\* the map callback runs for index idx[p]
MapStep(p) ==
  /\ pc[p] = "map"
  /\ idx[p] < len[p]
  /\ heap' = [heap EXCEPT ![rowRef[p]] = ArrayMapStep(FeatureList, @, idx[p])]
  /\ visits' = [visits EXCEPT ![p][idx[p] + 1] = @ + 1]
  /\ idx' = [idx EXCEPT ![p] = NextIndex(@)]
  /\ UNCHANGED <<variant, ncalls, pc, len, rowRef, tree, ridx, cards, outcome, history>>
  /\ UNCHANGED siteVars

\* map is over; HomepageFeatures returns the section element
Return(p) ==
  /\ pc[p] = "map"
  /\ idx[p] >= len[p]
  /\ tree' = [tree EXCEPT ![p] = HomepageFeaturesElement(rowRef[p])]
  /\ ridx' = [ridx EXCEPT ![p] = 0]
  /\ cards' = [cards EXCEPT ![p] = <<>>]
  /\ pc' = [pc EXCEPT ![p] = "host"]
  /\ UNCHANGED <<variant, heap, ncalls, len, idx, visits, rowRef, outcome, history>>
  /\ UNCHANGED siteVars

\* the host renders the next child of the row: it calls Feature(props)
RenderFeature(p) ==
  /\ pc[p] = "host"
  /\ ridx[p] < Len(heap[RowOf(tree[p]).childrenRef])
  /\ LET el == heap[RowOf(tree[p]).childrenRef][ridx[p] + 1]
         card == Feature(variant, el.props)
     IN IF HostAccepts(card)
        THEN /\ cards' = [cards EXCEPT ![p] = Append(@, card)]
             /\ ridx' = [ridx EXCEPT ![p] = @ + 1]
             /\ UNCHANGED <<pc, outcome, history>>
        ELSE /\ pc' = [pc EXCEPT ![p] = "error"]
             /\ outcome' = [outcome EXCEPT ![p] = ElementTypeError]
             /\ history' = history \cup {ElementTypeError}
             /\ UNCHANGED <<cards, ridx>>
  /\ UNCHANGED <<variant, heap, ncalls, len, idx, visits, rowRef, tree>>
  /\ UNCHANGED siteVars

\* every child is rendered: the render is complete
Commit(p) ==
  /\ pc[p] = "host"
  /\ ridx[p] >= Len(heap[RowOf(tree[p]).childrenRef])
  /\ pc' = [pc EXCEPT ![p] = "done"]
  /\ outcome' = [outcome EXCEPT ![p] = Rendered(cards[p])]
  /\ history' = history \cup {Rendered(cards[p])}
  /\ UNCHANGED <<variant, heap, ncalls, len, idx, visits, rowRef, tree, ridx, cards>>
  /\ UNCHANGED siteVars

\* the view is discarded; the render slot is free for a later call
Unmount(p) ==
  /\ pc[p] \in {"done", "error"}
  /\ pc' = [pc EXCEPT ![p] = "idle"]
  /\ tree' = [tree EXCEPT ![p] = NoTree]
  /\ cards' = [cards EXCEPT ![p] = <<>>]
  /\ outcome' = [outcome EXCEPT ![p] = NoOutcome]
  /\ ridx' = [ridx EXCEPT ![p] = 0]
  /\ UNCHANGED <<variant, heap, ncalls, len, idx, visits, rowRef, history>>
  /\ UNCHANGED siteVars

\* the site resolves the next navbar item: a docSidebar item is looked up
\* in the sidebars object by its sidebarId
ResolveNavbarItem ==
  /\ site = "loading"
  /\ navIdx < Len(NavbarItems)
  /\ LET item == NavbarItems[navIdx + 1] IN
       IF IsDocSidebarItem(item)
       THEN IF item.sidebarId \in DOMAIN Sidebars(sidebarsRev)
            THEN /\ navLinks' = Append(navLinks, Sidebars(sidebarsRev)[item.sidebarId])
                 /\ navIdx' = navIdx + 1
                 /\ site' = site
            ELSE /\ site' = "error"
                 /\ UNCHANGED <<navLinks, navIdx>>
       ELSE /\ navLinks' = Append(navLinks, NoSidebar)
            /\ navIdx' = navIdx + 1
            /\ site' = site
  /\ UNCHANGED <<variant, heap, ncalls, pc, len, idx, visits, rowRef, tree, ridx,
                 cards, outcome, history, sidebarsRev>>

\* every navbar item is resolved: pages can be rendered
SiteReady ==
  /\ site = "loading"
  /\ navIdx >= Len(NavbarItems)
  /\ site' = "ready"
  /\ UNCHANGED <<variant, heap, ncalls, pc, len, idx, visits, rowRef, tree, ridx,
                 cards, outcome, history, sidebarsRev, navIdx, navLinks>>

Next ==
  \/ ResolveNavbarItem
  \/ SiteReady
  \/ \E p \in Renders :
       \/ Begin(p)
       \/ MapStep(p)
       \/ Return(p)
       \/ RenderFeature(p)
       \/ Commit(p)
       \/ Unmount(p)

Spec == Init /\ [][Next]_vars

\* ---------------------------------------------------------------- claims
\* the array HomepageFeatures put under the row of render p
RowArray(p) == heap[RowOf(tree[p]).childrenRef]

\* the illustration value of a record of the loaded revision
Illustration(props) == IF variant = "Svg" THEN props.Svg ELSE props.image

\* C1: for a feature list of any length N, duplicates included, the row
\* HomepageFeatures returns holds exactly N Feature elements, element i made
\* from record i, and the rendered row holds exactly N cards, card i being
\* the card of record i: nothing is sorted, filtered, deduplicated or moved.
C1_OrderPreserved ==
  \A p \in Renders :
    /\ pc[p] \in {"host", "done", "error"} =>
         /\ Len(RowArray(p)) = Len(FeatureList)
         /\ \A i \in 1..Len(FeatureList) :
              /\ RowArray(p)[i].type = "Feature"
              /\ RowArray(p)[i].props = FeatureList[i]
    /\ pc[p] = "done" =>
         /\ Len(RowOf(outcome[p].tree).children) = Len(FeatureList)
         /\ \A i \in 1..Len(FeatureList) :
              RowOf(outcome[p].tree).children[i] = Feature(variant, FeatureList[i])

\* a finished render of a list that holds the same record twice
C1_Witness ==
  \E p \in Renders :
    /\ pc[p] = "done"
    /\ Len(FeatureList) = 2
    /\ FeatureList[1] = FeatureList[2]

\* C2: the card made for record i has a heading whose content is exactly the
\* record's title and a body whose content is exactly its description.
C2_ContentFidelity ==
  \A p \in Renders : \A i \in 1..Len(cards[p]) :
    LET nodes == ContentNodes(cards[p][i]) IN
      /\ \E j \in 1..Len(nodes) : nodes[j].type = "Heading"
      /\ \E j \in 1..Len(nodes) : nodes[j].type = "p"
      /\ \A j \in 1..Len(nodes) :
           /\ nodes[j].type = "Heading" => nodes[j].children = <<FeatureList[i].title>>
           /\ nodes[j].type = "p" => nodes[j].children = <<FeatureList[i].description>>

\* the host holds the cards of two records with different titles
C2_Witness ==
  \E p \in Renders :
    /\ Len(cards[p]) >= 2
    /\ FeatureList[1].title # FeatureList[2].title
    /\ FeatureList[1].description # FeatureList[2].description

\* C3: every card holds exactly three content nodes, in the order
\* illustration, heading with the title, body with the description, whatever
\* the record holds.
C3_CardLayout ==
  \A p \in Renders : \A i \in 1..Len(cards[p]) :
    LET nodes == ContentNodes(cards[p][i]) IN
      /\ Len(nodes) = 3
      /\ IF variant = "Svg"
         THEN nodes[1].type = FeatureList[i].Svg /\ nodes[1].role = "img"
         ELSE nodes[1].type = "img"
      /\ nodes[2].type = "Heading"
      /\ nodes[2].children = <<FeatureList[i].title>>
      /\ nodes[3].type = "p"
      /\ nodes[3].children = <<FeatureList[i].description>>

\* cards of three different records are rendered, in each revision
C3_Witness ==
  \E p \in Renders :
    /\ Len(cards[p]) = 3
    /\ Cardinality(Range(FeatureList)) = 3

\* C4: rendering the empty feature list never fails and gives the container
\* with no card; every render of the empty list gives that same container.
C4_EmptyList ==
  Len(FeatureList) = 0 =>
    /\ \A p \in Renders :
         /\ pc[p] # "error"
         /\ pc[p] = "done" =>
              /\ outcome[p].status = "ok"
              /\ Len(RowOf(outcome[p].tree).children) = 0
    /\ \A o \in history : o.status = "ok" /\ Len(RowOf(o.tree).children) = 0
    /\ Cardinality(history) <= 1

\* the empty list has been rendered twice
C4_Witness ==
  /\ Len(FeatureList) = 0
  /\ ncalls >= 2
  /\ \A p \in Renders : pc[p] = "done"

\* steps render p has still to take before it is finished
Remaining(p) ==
  CASE pc[p] = "map" -> (len[p] - idx[p]) + len[p] + 2
    [] pc[p] = "host" -> (len[p] - ridx[p]) + 1
    [] OTHER -> 0

\* the step a render in progress takes next
Step(p) == MapStep(p) \/ Return(p) \/ RenderFeature(p) \/ Commit(p)

\* C10: every render call over a finite list terminates: map makes one
\* pass in index order that runs the callback exactly once for each record
\* and stores one element per call, then HomepageFeatures returns the
\* container; a render in progress can always take its next step (it never
\* waits) and each step brings it nearer to its end.
C10_SinglePassTerminates ==
  /\ [](\A p \in Renders :
          /\ len[p] = Len(visits[p])
          /\ \A i \in 1..len[p] : visits[p][i] = IF i <= idx[p] THEN 1 ELSE 0
          /\ pc[p] = "map" => Len(heap[rowRef[p]]) = idx[p]
          /\ pc[p] \in {"host", "done", "error"} =>
               /\ idx[p] = Len(FeatureList)
               /\ Len(RowArray(p)) = Len(FeatureList)
          /\ pc[p] \in {"map", "host"} => Remaining(p) > 0 /\ ENABLED Step(p))
  /\ [][\A p \in Renders :
          (pc[p] \in {"map", "host"} /\ <<pc[p], idx[p], ridx[p]>>' # <<pc[p], idx[p], ridx[p]>>)
            => Remaining(p)' < Remaining(p)]_vars

\* a call over three records has returned its container
C10_Witness ==
  \E p \in Renders :
    /\ pc[p] = "host"
    /\ Len(FeatureList) = 3
    /\ \A i \in 1..3 : visits[p][i] = 1

\* a render that has begun and is not yet discarded
Active(p) == pc[p] # "idle"

\* the value a render of the list gives when nothing else runs: Feature
\* applied to each record in turn, or the host's error
AloneOutcome ==
  IF \A i \in 1..Len(FeatureList) : HostAccepts(Feature(variant, FeatureList[i]))
  THEN Rendered([i \in 1..Len(FeatureList) |-> Feature(variant, FeatureList[i])])
  ELSE ElementTypeError

\* what changed in a step belongs to render p
Stepped(p) == <<pc[p], idx[p], ridx[p]>>' # <<pc[p], idx[p], ridx[p]>>

\* C5: the renderer is deterministic and depends on the feature list only:
\* all render calls of a behaviour, in whatever order and however many came
\* before, return structurally equal rows and give equal outcomes.
C5_Deterministic ==
  /\ Cardinality(history) <= 1
  /\ \A p, q \in Renders :
       /\ (pc[p] \in {"host", "done", "error"} /\ pc[q] \in {"host", "done", "error"})
            => RowArray(p) = RowArray(q)
       /\ (pc[p] \in {"done", "error"} /\ pc[q] \in {"done", "error"})
            => outcome[p] = outcome[q]
  /\ \A p \in Renders : pc[p] \in {"done", "error"} => outcome[p] \in history

\* a second call is finished after the first one was discarded
C5_Witness ==
  \E p \in Renders :
    /\ pc[p] = "done"
    /\ rowRef[p] >= 2
    /\ Len(FeatureList) >= 2
    /\ \A q \in Renders \ {p} : pc[q] = "idle"

\* C6: a render call has no side effect: no step changes FeatureList (its
\* length, order or any record) or the loaded revision, and the only array
\* a step writes is the one the stepping call's own map is filling.
C6_NoSideEffects ==
  [][/\ heap'[FeatureListRef] = heap[FeatureListRef]
     /\ variant' = variant
     /\ \A a \in DOMAIN heap :
          heap'[a] # heap[a] =>
            \E p \in Renders : pc[p] = "map" /\ rowRef[p] = a /\ Stepped(p)]_vars

\* two calls over the built-in list are finished
C6_Witness ==
  /\ ncalls >= 2
  /\ FeatureList = BuiltinFeatureList(variant)
  /\ \A p \in Renders : pc[p] = "done"

CardTitle(card) == ContentNodes(card)[2].children[1]
CardDescription(card) == ContentNodes(card)[3].children[1]
CardIllustration(card) ==
  IF variant = "Svg" THEN ContentNodes(card)[1].type ELSE ContentNodes(card)[1].src

\* C8: rendering the built-in FeatureList never fails and gives one
\* container with exactly 3 cards titled 'Define time distribution', 'Design
\* event template', 'Send events anywhere' in this order, each with the
\* illustration and the description of its own record.
C8_BuiltinList ==
  FeatureList = BuiltinFeatureList(variant) =>
    \A p \in Renders :
      /\ pc[p] # "error"
      /\ pc[p] = "done" =>
           LET row == RowOf(outcome[p].tree).children IN
             /\ outcome[p].status = "ok"
             /\ Len(row) = 3
             /\ CardTitle(row[1]) = "Define time distribution"
             /\ CardTitle(row[2]) = "Design event template"
             /\ CardTitle(row[3]) = "Send events anywhere"
             /\ \A i \in 1..3 :
                  /\ CardIllustration(row[i]) = Illustration(BuiltinFeatureList(variant)[i])
                  /\ CardDescription(row[i]) = BuiltinFeatureList(variant)[i].description

\* the built-in list of the image revision is rendered
C8_Witness ==
  /\ variant = "image"
  /\ FeatureList = FeatureListImage
  /\ \E p \in Renders : pc[p] = "done" /\ outcome[p].status = "ok"

\* C9: when render invocations interleave, each owns its output: the arrays
\* of two renders in progress are different and neither is FeatureList, a
\* step of one render leaves the array, element, cards and outcome of every
\* other render as they were, and a finished render gives what a render of
\* the list gives when it runs alone.
C9_Isolation ==
  /\ [](\A p \in Renders :
          /\ Active(p) => rowRef[p] # FeatureListRef
          /\ \A q \in Renders : (p # q /\ Active(p) /\ Active(q)) => rowRef[p] # rowRef[q]
          /\ pc[p] \in {"done", "error"} => outcome[p] = AloneOutcome)
  /\ [][\A p \in Renders :
          (Active(p) /\ ~Stepped(p)) =>
            /\ heap'[rowRef[p]] = heap[rowRef[p]]
            /\ tree'[p] = tree[p]
            /\ cards'[p] = cards[p]
            /\ outcome'[p] = outcome[p]]_vars

\* a render that began later has finished while an earlier one is still
\* being rendered
C9_Witness ==
  \E p, q \in Renders :
    /\ p # q
    /\ pc[p] = "done"
    /\ pc[q] = "host"
    /\ ridx[q] >= 1
    /\ rowRef[q] < rowRef[p]
    /\ Len(FeatureList) >= 2

\* C11: the illustration node of the card at index i references exactly the
\* illustration value of the record at index i, unchanged: as the src of the
\* img node in the image revision, as the component of the illustration slot
\* in the Svg revision; this holds of the card Feature makes from element i
\* of every row and of every card the host holds.
C11_IllustrationPassedThrough ==
  \A p \in Renders :
    /\ pc[p] \in {"host", "done", "error"} =>
         \A i \in 1..Len(RowArray(p)) :
           LET node == ContentNodes(Feature(variant, RowArray(p)[i].props))[1] IN
             IF variant = "Svg"
             THEN node.type = FeatureList[i].Svg
             ELSE node.type = "img" /\ node.src = FeatureList[i].image
    /\ \A i \in 1..Len(cards[p]) :
         CardIllustration(cards[p][i]) = Illustration(FeatureList[i])

\* the host holds the cards of three records with three illustrations
C11_Witness ==
  \E p \in Renders :
    /\ Len(cards[p]) = 3
    /\ Cardinality({Illustration(FeatureList[i]) : i \in 1..3}) = 3

\* the keys of the elements of an array, in array order
Keys(row) == [i \in 1..Len(row) |-> row[i].key]

\* C12: in every row, while map fills it and after, the key of the element
\* at index i is i: the keys are pairwise distinct and are exactly 0..N-1
\* for the finished row, also when the list holds the same record twice.
C12_KeysAreIndexes ==
  \A p \in Renders :
    Active(p) =>
      LET row == heap[rowRef[p]] IN
        /\ \A i \in 1..Len(row) : row[i].key = i - 1
        /\ \A i, j \in 1..Len(row) : row[i].key = row[j].key => i = j
        /\ pc[p] \in {"host", "done", "error"} =>
             Range(Keys(row)) = 0..(Len(FeatureList) - 1)

\* a returned row of two elements, both made from the same record
C12_Witness ==
  \E p \in Renders :
    /\ pc[p] = "host"
    /\ Len(RowArray(p)) = 2
    /\ Cardinality(Range(FeatureList)) = 1

\* C13: every navbar item of type 'docSidebar' names a sidebarId that is a
\* key of the sidebars object, in both revisions of sidebars.js: the ids
\* are 'gettingStartedSidebar' and 'pluginsSidebar', resolving the navbar
\* never fails, and each resolved docSidebar item points at the sidebar
\* defined under its sidebarId.
C13_NavbarSidebarsDefined ==
  /\ site # "error"
  /\ Len(navLinks) = navIdx
  /\ \A i \in 1..navIdx :
       IsDocSidebarItem(NavbarItems[i]) =>
         /\ NavbarItems[i].sidebarId \in {"gettingStartedSidebar", "pluginsSidebar"}
         /\ NavbarItems[i].sidebarId \in DOMAIN Sidebars(sidebarsRev)
         /\ navLinks[i] = Sidebars(sidebarsRev)[NavbarItems[i].sidebarId]
         /\ navLinks[i] # NoSidebar
  /\ site = "ready" => navIdx = Len(NavbarItems)

\* the site is loaded with the second revision of sidebars.js and both
\* docSidebar items are resolved
C13_Witness ==
  /\ site = "ready"
  /\ sidebarsRev = "second"
  /\ Cardinality({i \in 1..navIdx : IsDocSidebarItem(NavbarItems[i])}) = 2

====
